---- MODULE Spec2Model ----
(***************************************************************************)
(* Model of the client-side match finders of the skill-bartering           *)
(* front-end: SkillMatcher.findAdvancedMatches (the broad matcher, with     *)
(* calculateCompatibility) and utils/matching.findMatches (the strict       *)
(* matcher).  Each await of a remote read is a suspension point; an action  *)
(* is the arrival of the outstanding read's response together with the      *)
(* continuation that runs up to the next await (which issues the next       *)
(* read) or to the end of the invocation.                                   *)
(***************************************************************************)
EXTENDS Integers, Sequences, FiniteSets, TLC

\* ------------------------------------------------------------------ bounds
MaxCallerRows == 2    \* user_skills rows of the caller (broad)
MaxOtherRows == 2     \* user_skills rows of counterparty 1 (broad)
CrowdSize == 13       \* extra counterparties, one 'needed' row each (broad)
MaxFailures == 1      \* remote reads that fail within one invocation
StrictCallerRows == 3 \* user_skills rows of the caller (strict)
StrictOtherRows == 3  \* user_skills rows of counterparties 1 and 2 together (strict)

\* ------------------------------------------------------- program constants
MatchLimit == 12      \* .slice(0, 12)

Caller == 0
Skills == {1, 2}      \* the skills table behind SkillMatcher
SkillsS == {1, 2, 3}  \* the skills table behind findMatches
Levels == {"beginner", "intermediate", "advanced"}
Types == {"offered", "needed"}
Responses == {"ok", "null", "throw"}

VARIABLES
  user_skills,      \* the backend table, a sequence of rows (unchanging)
  \* --- SkillMatcher (broad)
  bpc,              \* "idle" | "awaitOwn" | "awaitNeeders" | "awaitProviders" | "done"
  bIdx,             \* index of the offered / needed skill whose lookup is outstanding
  myOffered, myNeeded,
  potentialMatches,
  matches, loading, \* React state of the component
  logged,           \* number of console.error calls
  lookups,          \* number of needer / provider lookups issued
  failures,         \* number of remote reads that failed
  calls,            \* calculateCompatibility calls made: [teacher, learner, score]
  bInflight,        \* remote requests of the invocation that have not returned
  \* --- findMatches (strict)
  spc,              \* "idle" | "awaitOwn" | "awaitNeeders" | "awaitProviders" | "resolved" | "rejected"
  sOffered, sNeeded,
  oi, ni,           \* positions of the two nested loops
  needers, ki,      \* rows of the current needer lookup and position in them
  mutualMatches,
  sResult,          \* the value the promise resolved with
  sLookups,
  sFailures,
  sNeederLookups,   \* number of needer lookups issued
  sInflight,        \* remote requests of the invocation that have not returned
  \* --- two overlapping findMatches invocations
  inv,              \* invocation -> its locals (pc, myOffered, myNeeded, loop positions, result)
  accs,             \* array -> contents: the mutualMatches arrays allocated
  \* --- one swap, and the Dashboard of each of its two participants
  swapStatus,       \* status column of the stored swaps row
  swaps,            \* participant -> status of the swap in their fetched list ("none": not listed)
  fetching,         \* participant -> fetchSwaps reads that have not returned
  updates,          \* the updateSwapStatus invocations started, in click order
  coins,            \* participant -> coins awarded for the swap by award_skill_coins
  rewards,          \* participant -> sum of the amounts of their rewards rows for the swap
  dFailures,        \* Dashboard requests that failed
  \* --- SkillMatcher whose profile changes while a computation is in flight
  profile,          \* the profile useAuth() currently gives the component (a user id)
  runs,             \* the findAdvancedMatches invocations started, one per effect run
  shown,            \* the component's matches state
  shownLoading,     \* the component's loading state
  \* --- the router under AuthProvider
  history,          \* the browser's history entries, the last one is the location
  authUser,         \* AuthProvider's user is non-null
  authLoading,      \* AuthProvider's loading
  authPc,           \* initializeAuth: "idle" | "getSession" | "fetchProfile" | "ready"
  authSettling,     \* an onAuthStateChange callback is awaiting fetchProfile
  page,             \* what AppContent renders: "Loading", a page, or "Navigate"
  redirect,         \* target of the rendered <Navigate>, "none" without one
  \* --- ChatInterface of one swap
  conversationStored, \* the conversations table has the swap's row
  stored,           \* number of messages rows of the conversation (ids 1..stored, by created_at)
  chatPc,           \* initializeChat: "idle" | "awaitConversation" | "awaitCreate" | "awaitMessages" | "settled"
  subscription,     \* realtime channel: "none" | "joining" | "joined"
  snapshot,         \* the messages select at the service: whether it has run, and the rows it read
  notifications,    \* INSERT payloads on their way to the client, in order
  messages,         \* the component's messages state (message ids)
  \* --- AudioCallInterface
  mounted,          \* the component is mounted
  isConnected, isAudioOn, isSpeakerOn,
  connectTimer,     \* the effect's setTimeout is pending
  audioLevelTimer,  \* the effect's setInterval is active
  audioLevel,       \* 0, or 1 for a level drawn by Math.random() * 100
  callTimers,       \* active intervals created by startCallTimer
  callDuration

bvars == <<bpc, bIdx, myOffered, myNeeded, potentialMatches, matches, loading,
           logged, lookups, failures, calls, bInflight>>
svars == <<spc, sOffered, sNeeded, oi, ni, needers, ki, mutualMatches, sResult,
           sLookups, sFailures, sNeederLookups, sInflight>>
vars == <<user_skills, bpc, bIdx, myOffered, myNeeded, potentialMatches, matches,
          loading, logged, lookups, failures, calls, spc, sOffered, sNeeded, oi,
          ni, needers, ki, mutualMatches, sResult, sLookups, sFailures,
          bInflight, sNeederLookups, sInflight, inv, accs,
          swapStatus, swaps, fetching, updates, coins, rewards, dFailures,
          profile, runs, shown, shownLoading,
          history, authUser, authLoading, authPc, authSettling, page, redirect,
          conversationStored, stored, chatPc, subscription, snapshot, notifications, messages,
          mounted, isConnected, isAudioOn, isSpeakerOn, connectTimer, audioLevelTimer, audioLevel, callTimers, callDuration>>
ovars == <<inv, accs>>
dvars == <<swapStatus, swaps, fetching, updates, coins, rewards, dFailures>>
pvars == <<profile, runs, shown, shownLoading>>
rvars == <<history, authUser, authLoading, authPc, authSettling, page, redirect>>
cvars == <<conversationStored, stored, chatPc, subscription, snapshot, notifications, messages>>
avars == <<mounted, isConnected, isAudioOn, isSpeakerOn, connectTimer, audioLevelTimer, audioLevel, callTimers, callDuration>>
\* what the actions of one component leave alone
notBroad == <<svars, ovars, dvars, pvars, rvars, cvars, avars>>
notStrict == <<bvars, ovars, dvars, pvars, rvars, cvars, avars>>
notOverlap == <<bvars, svars, dvars, pvars, rvars, cvars, avars>>
notDashboard == <<user_skills, bvars, svars, ovars, pvars, rvars, cvars, avars>>
notProfile == <<user_skills, bvars, svars, ovars, dvars, rvars, cvars, avars>>
notRouting == <<user_skills, bvars, svars, ovars, dvars, pvars, cvars, avars>>
notChat == <<user_skills, bvars, svars, ovars, dvars, pvars, rvars, avars>>
notAudio == <<user_skills, bvars, svars, ovars, dvars, pvars, rvars, cvars>>

\* ------------------------------------------------------------ the backend
\* user_skills is kept in insertion order (user, skill, type) and the reads,
\* which carry no .order(), return their rows in that order
Row(u, s, t, l) == [user_id |-> u, skill_id |-> s, type |-> t, proficiency_level |-> l]

RowKey(r) == r.user_id * 1000 + r.skill_id * 10 + (IF r.type = "offered" THEN 0 ELSE 1)

RECURSIVE TableOf(_)
TableOf(S) ==
  IF S = {} THEN <<>>
  ELSE LET r == CHOOSE x \in S : \A y \in S : RowKey(x) <= RowKey(y)
       IN <<r>> \o TableOf(S \ {r})

\* rows of one user: one row per chosen (skill, type) slot, as Profile.handleAddSkill keeps it
RowsOf(u, slots, lv) == { Row(u, s[1], s[2], lv[s]) : s \in slots }

LevelOfCrowd(u) == CASE u % 3 = 0 -> "beginner" [] u % 3 = 1 -> "intermediate" [] OTHER -> "advanced"
CrowdRows(n) == { Row(u, 1, "needed", LevelOfCrowd(u)) : u \in 2..(1 + n) }

\* ---------------------------------------------------------- remote reads
\* mutant: the .eq('user_id', ...) filter is missing
OwnSkills_noUserFilter(uid) == user_skills

\* .from('user_skills').select(...).eq('user_id', profile.id)
OwnSkills(uid) == SelectSeq(user_skills, LAMBDA r : r.user_id = uid)

\* mutant: the .neq('user_id', profile.id) filter is missing
NeedersOf_withCaller(skill, uid) ==
  SelectSeq(user_skills, LAMBDA r : r.skill_id = skill /\ r.type = "needed")

\* .eq('skill_id', skill).eq('type', 'needed').neq('user_id', uid)
NeedersOf(skill, uid) ==
  SelectSeq(user_skills, LAMBDA r : r.skill_id = skill /\ r.type = "needed" /\ r.user_id # uid)

\* .eq('skill_id', skill).eq('type', 'offered').neq('user_id', uid)
ProvidersOf(skill, uid) ==
  SelectSeq(user_skills, LAMBDA r : r.skill_id = skill /\ r.type = "offered" /\ r.user_id # uid)

\* a request is sent when the code reaches its await and is outstanding until
\* the await resumes with its response
Issue(inflight, req) == inflight \cup {req}

\* mutant: the request is fired without await, the code runs on while it is outstanding
Await_notAwaited(inflight, req) == inflight

Await(inflight, req) == inflight \ {req}

\* a failed read reported by the client resolves with data = null
Data(resp, rows) == IF resp = "ok" THEN rows ELSE <<>>

\* ------------------------------------------------- calculateCompatibility
\* mutant: a four-point scale, advanced mapped to 4
levels_fourPoint(l) == CASE l = "beginner" -> 1 [] l = "intermediate" -> 2 [] l = "advanced" -> 4 [] OTHER -> 1

levels(l) == CASE l = "beginner" -> 1 [] l = "intermediate" -> 2 [] l = "advanced" -> 3 [] OTHER -> 1

\* mutant: the upper end of the 'best match' range is excluded
calculateCompatibility_narrowRange(teacherLevel, learnerLevel) ==
  LET levelDiff == levels(teacherLevel) - levels(learnerLevel)
  IN IF levelDiff >= 1 /\ levelDiff < 2 THEN 100
     ELSE IF levelDiff = 0 THEN 80
     ELSE IF levelDiff = 3 THEN 60
     ELSE 40

calculateCompatibility(teacherLevel, learnerLevel) ==
  LET levelDiff == levels(teacherLevel) - levels(learnerLevel)
  IN IF levelDiff >= 1 /\ levelDiff <= 2 THEN 100
     ELSE IF levelDiff = 0 THEN 80
     ELSE IF levelDiff = 3 THEN 60
     ELSE 40

Call(t, l) == [teacher |-> t, learner |-> l, score |-> calculateCompatibility(t, l)]

\* ------------------------------------------------ SkillMatcher (broad)
myOfferedB(userSkills) == SelectSeq(userSkills, LAMBDA r : r.type = "offered")
myNeededB(userSkills) == SelectSeq(userSkills, LAMBDA r : r.type = "needed")

\* user: needer.profiles (its id is the row's user_id), skill: needer.skills
Entry(row, c) == [user |-> row.user_id, skill |-> row.skill_id, compatibility |-> c]

\* needers loop body: every needer row is pushed
pushNeeders(pm, offeredSkill, rows) ==
  pm \o [k \in 1..Len(rows) |->
           Entry(rows[k], calculateCompatibility(offeredSkill.proficiency_level,
                                                 rows[k].proficiency_level))]

\* Array.prototype.findIndex on the user id; 0 stands for JavaScript's -1
findIndex(s, u) ==
  IF \E k \in 1..Len(s) : s[k].user = u
  THEN CHOOSE k \in 1..Len(s) : s[k].user = u /\ \A j \in 1..(k - 1) : s[j].user # u
  ELSE 0

splice(s, index) == [k \in 1..(Len(s) - 1) |-> IF k < index THEN s[k] ELSE s[k + 1]]

\* providers loop body for one provider row
pushProvider(pm, neededSkill, provider) ==
  LET compatibility == calculateCompatibility(provider.proficiency_level,
                                              neededSkill.proficiency_level)
      index == findIndex(pm, provider.user_id)
  IN IF index = 0 \/ pm[index].compatibility < compatibility
     THEN Append(IF index # 0 THEN splice(pm, index) ELSE pm, Entry(provider, compatibility))
     ELSE pm

RECURSIVE pushProviders(_, _, _, _)
pushProviders(pm, neededSkill, rows, k) ==
  IF k > Len(rows) THEN pm
  ELSE pushProviders(pushProvider(pm, neededSkill, rows[k]), neededSkill, rows, k + 1)

\* .filter((match, index, self) => index === self.findIndex(m => m.user.id === match.user.id))
RECURSIVE filterFirst(_, _)
filterFirst(s, k) ==
  IF k > Len(s) THEN <<>>
  ELSE (IF findIndex(s, s[k].user) = k THEN <<s[k]>> ELSE <<>>) \o filterFirst(s, k + 1)

\* mutant: the comparator is a.compatibility - b.compatibility
insertDesc_ascending(sorted, e) ==
  LET before == SelectSeq(sorted, LAMBDA x : x.compatibility <= e.compatibility)
      after == SelectSeq(sorted, LAMBDA x : x.compatibility > e.compatibility)
  IN before \o <<e>> \o after

\* .sort((a, b) => b.compatibility - a.compatibility): stable, descending
insertDesc(sorted, e) ==
  LET before == SelectSeq(sorted, LAMBDA x : x.compatibility >= e.compatibility)
      after == SelectSeq(sorted, LAMBDA x : x.compatibility < e.compatibility)
  IN before \o <<e>> \o after

RECURSIVE sortDesc(_, _)
sortDesc(s, k) == IF k = 0 THEN <<>> ELSE insertDesc(sortDesc(s, k - 1), s[k])

slice(s, n) == IF Len(s) <= n THEN s ELSE SubSeq(s, 1, n)

\* mutant: the duplicate filter is missing
uniqueMatches_noFilter(pm) == slice(sortDesc(pm, Len(pm)), MatchLimit)

uniqueMatches(pm) ==
  LET filtered == filterFirst(pm, 1)
  IN slice(sortDesc(filtered, Len(filtered)), MatchLimit)

\* a read fails only while the failure budget lasts
MayRespond(resp, n) == resp = "ok" \/ n < MaxFailures

\* the read the invocation is suspended on
BroadRequest(pc, idx) ==
  CASE pc = "awaitOwn" -> <<"own", 0>>
    [] pc = "awaitNeeders" -> <<"needers", idx>>
    [] pc = "awaitProviders" -> <<"providers", idx>>

\* the awaited read has returned; the continuation ends or suspends on its next read
B_Resume(pc, idx) ==
  LET returned == Await(bInflight, BroadRequest(bpc, bIdx))
  IN bInflight' = IF pc = "done" THEN returned ELSE Issue(returned, BroadRequest(pc, idx))

\* mutant: no finally block, loading is left set
B_Catch_noFinally ==
  /\ logged' = logged + 1
  /\ matches' = <<>>
  /\ loading' = loading
  /\ bpc' = "done"

\* catch (error) { console.error(...); setMatches([]) } finally { setLoading(false) }
B_Catch ==
  /\ logged' = logged + 1
  /\ matches' = <<>>
  /\ loading' = FALSE
  /\ bpc' = "done"

\* end of the try block: setMatches(uniqueMatches); finally setLoading(false)
B_Finish(pm) ==
  /\ matches' = uniqueMatches(pm)
  /\ loading' = FALSE
  /\ bpc' = "done"
  /\ UNCHANGED <<logged, lookups, bIdx>>

\* the own-skills read returns; runs to the first lookup or to the early return
B_OwnSkillsReturn ==
  /\ bpc = "awaitOwn"
  /\ \E resp \in Responses :
       /\ MayRespond(resp, failures)
       /\ failures' = IF resp = "ok" THEN failures ELSE failures + 1
       /\ IF resp = "throw"
          THEN /\ B_Catch
               /\ UNCHANGED <<bIdx, myOffered, myNeeded, lookups>>
          ELSE LET userSkills == Data(resp, OwnSkills(Caller))
                   off == myOfferedB(userSkills)
                   need == myNeededB(userSkills)
               IN /\ myOffered' = off
                  /\ myNeeded' = need
                  /\ UNCHANGED <<logged, matches>>
                  /\ IF Len(off) = 0 /\ Len(need) = 0
                     THEN /\ loading' = FALSE
                          /\ bpc' = "done"
                          /\ UNCHANGED <<bIdx, lookups>>
                     ELSE /\ bpc' = IF Len(off) > 0 THEN "awaitNeeders" ELSE "awaitProviders"
                          /\ bIdx' = 1
                          /\ lookups' = lookups + 1
                          /\ UNCHANGED loading
  /\ B_Resume(bpc', bIdx')
  /\ UNCHANGED <<potentialMatches, calls, user_skills>>
  /\ UNCHANGED notBroad

\* the needer lookup for myOffered[bIdx] returns
B_NeedersReturn ==
  /\ bpc = "awaitNeeders"
  /\ \E resp \in Responses :
       /\ MayRespond(resp, failures)
       /\ failures' = IF resp = "ok" THEN failures ELSE failures + 1
       /\ IF resp = "throw"
          THEN /\ B_Catch
               /\ UNCHANGED <<bIdx, lookups, potentialMatches, calls>>
          ELSE LET offeredSkill == myOffered[bIdx]
                   rows == Data(resp, NeedersOf(offeredSkill.skill_id, Caller))
                   pm == pushNeeders(potentialMatches, offeredSkill, rows)
               IN /\ potentialMatches' = pm
                  /\ calls' = calls \cup { Call(offeredSkill.proficiency_level,
                                                rows[k].proficiency_level) : k \in 1..Len(rows) }
                  /\ IF bIdx < Len(myOffered)
                     THEN /\ bIdx' = bIdx + 1
                          /\ lookups' = lookups + 1
                          /\ UNCHANGED <<bpc, matches, loading, logged>>
                     ELSE IF Len(myNeeded) > 0
                     THEN /\ bpc' = "awaitProviders"
                          /\ bIdx' = 1
                          /\ lookups' = lookups + 1
                          /\ UNCHANGED <<matches, loading, logged>>
                     ELSE B_Finish(pm)
  /\ B_Resume(bpc', bIdx')
  /\ UNCHANGED <<myOffered, myNeeded, user_skills>>
  /\ UNCHANGED notBroad

\* the provider lookup for myNeeded[bIdx] returns
B_ProvidersReturn ==
  /\ bpc = "awaitProviders"
  /\ \E resp \in Responses :
       /\ MayRespond(resp, failures)
       /\ failures' = IF resp = "ok" THEN failures ELSE failures + 1
       /\ IF resp = "throw"
          THEN /\ B_Catch
               /\ UNCHANGED <<bIdx, lookups, potentialMatches, calls>>
          ELSE LET neededSkill == myNeeded[bIdx]
                   rows == Data(resp, ProvidersOf(neededSkill.skill_id, Caller))
                   pm == pushProviders(potentialMatches, neededSkill, rows, 1)
               IN /\ potentialMatches' = pm
                  /\ calls' = calls \cup { Call(rows[k].proficiency_level,
                                                neededSkill.proficiency_level) : k \in 1..Len(rows) }
                  /\ IF bIdx < Len(myNeeded)
                     THEN /\ bIdx' = bIdx + 1
                          /\ lookups' = lookups + 1
                          /\ UNCHANGED <<bpc, matches, loading, logged>>
                     ELSE B_Finish(pm)
  /\ B_Resume(bpc', bIdx')
  /\ UNCHANGED <<myOffered, myNeeded, user_skills>>
  /\ UNCHANGED notBroad

SlotsB == Skills \X Types

OverlapIdle == inv = <<>> /\ accs = <<>>

ProfileIdle ==
  /\ profile = Caller
  /\ runs = <<>>
  /\ shown = <<>> /\ shownLoading = TRUE

RoutingIdle ==
  /\ history = <<>>
  /\ authUser = FALSE /\ authLoading = TRUE
  /\ authPc = "idle" /\ authSettling = FALSE
  /\ page = "none" /\ redirect = "none"

ChatIdle ==
  /\ conversationStored = FALSE /\ stored = 0
  /\ chatPc = "idle" /\ subscription = "none"
  /\ snapshot = [read |-> FALSE, rows |-> <<>>] /\ notifications = <<>>
  /\ messages = <<>>

AudioIdle ==
  /\ mounted = FALSE
  /\ isConnected = FALSE /\ isAudioOn = TRUE /\ isSpeakerOn = TRUE
  /\ connectTimer = FALSE /\ audioLevelTimer = FALSE
  /\ audioLevel = 0 /\ callTimers = 0 /\ callDuration = 0

DashboardIdle ==
  /\ swapStatus = "pending"
  /\ swaps = <<>> /\ fetching = <<>> /\ updates = <<>>
  /\ coins = <<>> /\ rewards = <<>>
  /\ dFailures = 0

StrictIdle ==
  /\ spc = "idle"
  /\ sOffered = <<>> /\ sNeeded = <<>>
  /\ oi = 0 /\ ni = 0
  /\ needers = <<>> /\ ki = 0
  /\ mutualMatches = <<>>
  /\ sResult = <<>>
  /\ sLookups = 0
  /\ sFailures = 0
  /\ sNeederLookups = 0
  /\ sInflight = {}

\* SkillMatcher mounted with a profile: useState defaults, the effect has
\* called findAdvancedMatches and its own-skills read is outstanding
InitBroad ==
  /\ \E cs \in SUBSET SlotsB, os \in SUBSET SlotsB, crowd \in {0, CrowdSize} :
       /\ Cardinality(cs) <= MaxCallerRows
       /\ Cardinality(os) <= MaxOtherRows
       /\ \E cl \in [cs -> Levels], ol \in [os -> Levels] :
            user_skills = TableOf(RowsOf(Caller, cs, cl) \cup RowsOf(1, os, ol)
                                  \cup CrowdRows(crowd))
  /\ bpc = "awaitOwn"
  /\ bIdx = 0
  /\ myOffered = <<>> /\ myNeeded = <<>>
  /\ potentialMatches = <<>>
  /\ matches = <<>>
  /\ loading = TRUE
  /\ logged = 0
  /\ lookups = 0
  /\ failures = 0
  /\ calls = {}
  /\ bInflight = {<<"own", 0>>}
  /\ StrictIdle
  /\ OverlapIdle
  /\ DashboardIdle
  /\ ProfileIdle
  /\ RoutingIdle
  /\ ChatIdle
  /\ AudioIdle

NextBroad == B_OwnSkillsReturn \/ B_NeedersReturn \/ B_ProvidersReturn

SpecBroad == InitBroad /\ [][NextBroad]_vars

\* ------------------------------------------------- findMatches (strict)
myOfferedS(userSkills) == SelectSeq(userSkills, LAMBDA r : r.type = "offered")
\* mutant: the type filter is missing
myNeededS_unfiltered(userSkills) == userSkills

myNeededS(userSkills) == SelectSeq(userSkills, LAMBDA r : r.type = "needed")

\* mutant: the .neq('user_id', userId) filter is missing
NeedersOfS_withCaller(skill, uid) ==
  SelectSeq(user_skills, LAMBDA r : r.skill_id = skill /\ r.type = "needed")

\* .eq('skill_id', offeredSkill.skill_id).eq('type', 'needed').neq('user_id', userId)
NeedersOfS(skill, uid) ==
  SelectSeq(user_skills, LAMBDA r : r.skill_id = skill /\ r.type = "needed" /\ r.user_id # uid)

\* .from('user_skills').select(...).eq('user_id', userId)
OwnSkillsS(uid) == SelectSeq(user_skills, LAMBDA r : r.user_id = uid)

\* mutant: the .eq('user_id', needer.user_id) filter is missing
ProvidersOfS_anyUser(u, skill) ==
  SelectSeq(user_skills, LAMBDA r : r.skill_id = skill /\ r.type = "offered")

\* .eq('user_id', needer.user_id).eq('skill_id', neededSkill.skill_id).eq('type', 'offered')
ProvidersOfS(u, skill) ==
  SelectSeq(user_skills, LAMBDA r : r.user_id = u /\ r.skill_id = skill /\ r.type = "offered")

MatchResult(needer, offeredSkill) ==
  [userId |-> needer.user_id, skillId |-> offeredSkill.skill_id, matchType |-> "offered"]

MayRespondS(resp) == resp = "ok" \/ sFailures < MaxFailures

\* the read the invocation is suspended on
StrictRequest(pc, o, n, k) ==
  CASE pc = "awaitOwn" -> <<"own", 0, 0, 0>>
    [] pc = "awaitNeeders" -> <<"needers", o, n, 0>>
    [] pc = "awaitProviders" -> <<"providers", o, n, k>>

\* the awaited read has returned; the continuation ends or suspends on its next read
S_Resume(pc, o, n, k) ==
  LET returned == Await(sInflight, StrictRequest(spc, oi, ni, ki))
  IN sInflight' = IF pc \in {"resolved", "rejected"} THEN returned
                  ELSE Issue(returned, StrictRequest(pc, o, n, k))

\* no try/catch in findMatches: a read that throws rejects the promise
S_Reject ==
  /\ spc' = "rejected"
  /\ UNCHANGED <<sOffered, sNeeded, oi, ni, needers, ki, mutualMatches, sResult, sLookups,
                 sNeederLookups>>

\* leave the needers loop: next neededSkill, next offeredSkill, or return mutualMatches
S_Advance(mm) ==
  /\ mutualMatches' = mm
  /\ IF ni < Len(sNeeded)
     THEN /\ ni' = ni + 1
          /\ spc' = "awaitNeeders"
          /\ sLookups' = sLookups + 1
          /\ sNeederLookups' = sNeederLookups + 1
          /\ UNCHANGED <<oi, sResult>>
     ELSE IF oi < Len(sOffered)
     THEN /\ oi' = oi + 1
          /\ ni' = 1
          /\ spc' = "awaitNeeders"
          /\ sLookups' = sLookups + 1
          /\ sNeederLookups' = sNeederLookups + 1
          /\ UNCHANGED sResult
     ELSE /\ spc' = "resolved"
          /\ sResult' = mm
          /\ UNCHANGED <<oi, ni, sLookups, sNeederLookups>>

S_OwnSkillsReturn ==
  /\ spc = "awaitOwn"
  /\ \E resp \in Responses :
       /\ MayRespondS(resp)
       /\ sFailures' = IF resp = "ok" THEN sFailures ELSE sFailures + 1
       /\ IF resp = "throw" THEN S_Reject
          ELSE IF resp = "null"
          THEN /\ spc' = "resolved"
               /\ sResult' = <<>>
               /\ UNCHANGED <<sOffered, sNeeded, oi, ni, needers, ki, mutualMatches, sLookups,
                              sNeederLookups>>
          ELSE LET userSkills == OwnSkillsS(Caller)
                   off == myOfferedS(userSkills)
                   need == myNeededS(userSkills)
               IN /\ sOffered' = off
                  /\ sNeeded' = need
                  /\ UNCHANGED <<needers, ki, mutualMatches>>
                  /\ IF Len(off) = 0 \/ Len(need) = 0
                     THEN /\ spc' = "resolved"
                          /\ sResult' = <<>>
                          /\ UNCHANGED <<oi, ni, sLookups, sNeederLookups>>
                     ELSE /\ oi' = 1
                          /\ ni' = 1
                          /\ spc' = "awaitNeeders"
                          /\ sLookups' = sLookups + 1
                          /\ sNeederLookups' = sNeederLookups + 1
                          /\ UNCHANGED sResult
  /\ S_Resume(spc', oi', ni', ki')
  /\ UNCHANGED user_skills
  /\ UNCHANGED notStrict

\* the needer lookup for (sOffered[oi], sNeeded[ni]) returns
S_NeedersReturn ==
  /\ spc = "awaitNeeders"
  /\ \E resp \in Responses :
       /\ MayRespondS(resp)
       /\ sFailures' = IF resp = "ok" THEN sFailures ELSE sFailures + 1
       /\ IF resp = "throw" THEN S_Reject
          ELSE LET rows == Data(resp, NeedersOfS(sOffered[oi].skill_id, Caller))
               IN IF Len(rows) > 0
                  THEN /\ needers' = rows
                       /\ ki' = 1
                       /\ spc' = "awaitProviders"
                       /\ sLookups' = sLookups + 1
                       /\ UNCHANGED <<oi, ni, mutualMatches, sResult, sNeederLookups>>
                  ELSE /\ S_Advance(mutualMatches)
                       /\ UNCHANGED <<needers, ki>>
  /\ S_Resume(spc', oi', ni', ki')
  /\ UNCHANGED <<sOffered, sNeeded, user_skills>>
  /\ UNCHANGED notStrict

\* the provider lookup for needers[ki] and sNeeded[ni] returns
S_ProvidersReturn ==
  /\ spc = "awaitProviders"
  /\ \E resp \in Responses :
       /\ MayRespondS(resp)
       /\ sFailures' = IF resp = "ok" THEN sFailures ELSE sFailures + 1
       /\ IF resp = "throw" THEN S_Reject
          ELSE LET needer == needers[ki]
                   providers == Data(resp, ProvidersOfS(needer.user_id, sNeeded[ni].skill_id))
                   mm == IF Len(providers) > 0
                         THEN Append(mutualMatches, MatchResult(needer, sOffered[oi]))
                         ELSE mutualMatches
               IN IF ki < Len(needers)
                  THEN /\ ki' = ki + 1
                       /\ mutualMatches' = mm
                       /\ sLookups' = sLookups + 1
                       /\ UNCHANGED <<spc, oi, ni, needers, sResult, sNeederLookups>>
                  ELSE /\ S_Advance(mm)
                       /\ UNCHANGED <<needers, ki>>
  /\ S_Resume(spc', oi', ni', ki')
  /\ UNCHANGED <<sOffered, sNeeded, user_skills>>
  /\ UNCHANGED notStrict

SlotsS == SkillsS \X Types
OtherSlotsS == {1, 2} \X SlotsS

BroadIdle ==
  /\ bpc = "idle"
  /\ bIdx = 0
  /\ myOffered = <<>> /\ myNeeded = <<>>
  /\ potentialMatches = <<>>
  /\ matches = <<>>
  /\ loading = TRUE
  /\ logged = 0
  /\ lookups = 0
  /\ failures = 0
  /\ calls = {}
  /\ bInflight = {}

\* findMatches(userId) has been called and its own-skills read is outstanding;
\* findMatches never reads proficiency_level, so every row carries the same one
InitStrict ==
  /\ \E cs \in SUBSET SlotsS, os \in SUBSET OtherSlotsS :
       /\ Cardinality(cs) <= StrictCallerRows
       /\ Cardinality(os) <= StrictOtherRows
       /\ user_skills = TableOf({ Row(Caller, s[1], s[2], "beginner") : s \in cs }
                                \cup { Row(s[1], s[2][1], s[2][2], "beginner") : s \in os })
  /\ spc = "awaitOwn"
  /\ sOffered = <<>> /\ sNeeded = <<>>
  /\ oi = 0 /\ ni = 0
  /\ needers = <<>> /\ ki = 0
  /\ mutualMatches = <<>>
  /\ sResult = <<>>
  /\ sLookups = 0
  /\ sFailures = 0
  /\ sNeederLookups = 0
  /\ sInflight = {<<"own", 0, 0, 0>>}
  /\ BroadIdle
  /\ OverlapIdle
  /\ DashboardIdle
  /\ ProfileIdle
  /\ RoutingIdle
  /\ ChatIdle
  /\ AudioIdle

NextStrict == S_OwnSkillsReturn \/ S_NeedersReturn \/ S_ProvidersReturn

SpecStrict == InitStrict /\ [][NextStrict]_vars

\* ------------------------------------- both match finders, side by side
\* a SkillMatcher and a findMatches invocation started for the same caller on
\* the same backend; neither reads what the other writes
InitBoth ==
  /\ \E cs \in SUBSET SlotsB, os \in SUBSET SlotsB :
       /\ Cardinality(cs) <= MaxCallerRows
       /\ Cardinality(os) <= MaxOtherRows
       /\ user_skills = TableOf({ Row(Caller, s[1], s[2], "beginner") : s \in cs }
                                \cup { Row(1, s[1], s[2], "beginner") : s \in os })
  /\ bpc = "awaitOwn"
  /\ bIdx = 0
  /\ myOffered = <<>> /\ myNeeded = <<>>
  /\ potentialMatches = <<>>
  /\ matches = <<>>
  /\ loading = TRUE
  /\ logged = 0
  /\ lookups = 0
  /\ failures = 0
  /\ calls = {}
  /\ bInflight = {<<"own", 0>>}
  /\ spc = "awaitOwn"
  /\ sOffered = <<>> /\ sNeeded = <<>>
  /\ oi = 0 /\ ni = 0
  /\ needers = <<>> /\ ki = 0
  /\ mutualMatches = <<>>
  /\ sResult = <<>>
  /\ sLookups = 0
  /\ sFailures = 0
  /\ sNeederLookups = 0
  /\ sInflight = {<<"own", 0, 0, 0>>}
  /\ OverlapIdle
  /\ DashboardIdle
  /\ ProfileIdle
  /\ RoutingIdle
  /\ ChatIdle
  /\ AudioIdle

NextBoth == NextBroad \/ NextStrict

SpecBoth == InitBoth /\ [][NextBoth]_vars

\* the backend answers every request: a response that can arrive does arrive
SpecBothLive == InitBoth /\ [][NextBoth]_vars /\ WF_vars(NextBroad) /\ WF_vars(NextStrict)

\* ------------------------------ two overlapping findMatches invocations
\* useMatches calls findMatches from its effect and from refetch; a second call
\* can start while the first is suspended.  All reads succeed here.
Invocations == {1, 2}

\* mutant: mutualMatches declared once at module level and shared by the calls
ListOf_shared(i) == 1

\* const mutualMatches = [] inside findMatches: every call allocates its own array
ListOf(i) == i

\* leave the needers loop of invocation i, whose array now holds mm
O_Advance(i, mm) ==
  LET r == inv[i]
  IN IF r.ni < Len(r.myNeeded)
     THEN inv' = [inv EXCEPT ![i].ni = r.ni + 1, ![i].pc = "awaitNeeders"]
     ELSE IF r.oi < Len(r.myOffered)
     THEN inv' = [inv EXCEPT ![i].oi = r.oi + 1, ![i].ni = 1, ![i].pc = "awaitNeeders"]
     ELSE inv' = [inv EXCEPT ![i].pc = "resolved", ![i].result = mm]

O_OwnSkillsReturn(i) ==
  /\ inv[i].pc = "awaitOwn"
  /\ LET userSkills == OwnSkillsS(Caller)
         off == myOfferedS(userSkills)
         need == myNeededS(userSkills)
     IN IF Len(off) = 0 \/ Len(need) = 0
        THEN /\ inv' = [inv EXCEPT ![i].pc = "resolved", ![i].result = <<>>,
                                    ![i].myOffered = off, ![i].myNeeded = need]
             /\ UNCHANGED accs
        ELSE /\ inv' = [inv EXCEPT ![i].pc = "awaitNeeders", ![i].oi = 1, ![i].ni = 1,
                                    ![i].myOffered = off, ![i].myNeeded = need]
             /\ accs' = [accs EXCEPT ![ListOf(i)] = <<>>]
  /\ UNCHANGED user_skills
  /\ UNCHANGED notOverlap

O_NeedersReturn(i) ==
  /\ inv[i].pc = "awaitNeeders"
  /\ LET r == inv[i]
         rows == NeedersOfS(r.myOffered[r.oi].skill_id, Caller)
     IN IF Len(rows) > 0
        THEN inv' = [inv EXCEPT ![i].needers = rows, ![i].ki = 1, ![i].pc = "awaitProviders"]
        ELSE O_Advance(i, accs[ListOf(i)])
  /\ UNCHANGED <<accs, user_skills>>
  /\ UNCHANGED notOverlap

O_ProvidersReturn(i) ==
  /\ inv[i].pc = "awaitProviders"
  /\ LET r == inv[i]
         needer == r.needers[r.ki]
         providers == ProvidersOfS(needer.user_id, r.myNeeded[r.ni].skill_id)
         mm == IF Len(providers) > 0
               THEN Append(accs[ListOf(i)], MatchResult(needer, r.myOffered[r.oi]))
               ELSE accs[ListOf(i)]
     IN /\ accs' = [accs EXCEPT ![ListOf(i)] = mm]
        /\ IF r.ki < Len(r.needers)
           THEN inv' = [inv EXCEPT ![i].ki = r.ki + 1]
           ELSE O_Advance(i, mm)
  /\ UNCHANGED user_skills
  /\ UNCHANGED notOverlap

InitOverlap ==
  /\ \E cs \in SUBSET SlotsB, os \in SUBSET SlotsB, ps \in SUBSET SlotsB :
       /\ Cardinality(cs) <= MaxCallerRows
       /\ Cardinality(os) <= MaxOtherRows
       /\ Cardinality(ps) <= MaxOtherRows
       /\ user_skills = TableOf({ Row(Caller, s[1], s[2], "beginner") : s \in cs }
                                \cup { Row(1, s[1], s[2], "beginner") : s \in os }
                                \cup { Row(2, s[1], s[2], "beginner") : s \in ps })
  /\ inv = [i \in Invocations |->
             [pc |-> "awaitOwn", myOffered |-> <<>>, myNeeded |-> <<>>, oi |-> 0, ni |-> 0,
              needers |-> <<>>, ki |-> 0, result |-> <<>>]]
  /\ accs = [i \in Invocations |-> <<>>]
  /\ BroadIdle
  /\ StrictIdle
  /\ DashboardIdle
  /\ ProfileIdle
  /\ RoutingIdle
  /\ ChatIdle
  /\ AudioIdle

NextOverlap ==
  \E i \in Invocations : O_OwnSkillsReturn(i) \/ O_NeedersReturn(i) \/ O_ProvidersReturn(i)

SpecOverlap == InitOverlap /\ [][NextOverlap]_vars

\* ----------------------------------- Dashboard: fetchSwaps / updateSwapStatus
\* One swap and its two participants, each with a mounted Dashboard.  The
\* buttons are rendered from the participant's fetched list; updateSwapStatus
\* is suspended at its update, at each award call and at each rewards insert.
MaxUpdates == 2       \* updateSwapStatus invocations started in one behaviour
RewardAmount == 10    \* amount: 10
Participants == <<"requester", "provider">>   \* [swap.requester_id, swap.provider_id]
Users == {"requester", "provider"}
Statuses == {"pending", "accepted", "in_progress", "completed", "cancelled"}
WriteResponses == {"ok", "error"}   \* the awaited { error } of a write

MayFail(resp) == resp = "ok" \/ dFailures < MaxFailures
Failed(resp) == IF resp = "ok" THEN dFailures ELSE dFailures + 1

\* mutant: the awards are issued whatever the new status
AwardsDue_always(status) == TRUE

\* if (status === 'completed')
AwardsDue(status) == status = "completed"

\* fetchSwaps returns: setSwaps(data || []), nothing on { error }, [] on a throw
D_FetchReturn(u) ==
  /\ fetching[u] > 0
  /\ \E resp \in Responses :
       /\ MayFail(resp)
       /\ dFailures' = Failed(resp)
       /\ swaps' = [swaps EXCEPT ![u] = CASE resp = "ok" -> swapStatus
                                          [] resp = "null" -> swaps[u]
                                          [] resp = "throw" -> "none"]
  /\ fetching' = [fetching EXCEPT ![u] = fetching[u] - 1]
  /\ UNCHANGED <<swapStatus, updates, coins, rewards>>
  /\ UNCHANGED notDashboard

\* onClick={() => updateSwapStatus(swap.id, status)}: the call runs to its update
Click(u, status) ==
  /\ Len(updates) < MaxUpdates
  /\ updates' = Append(updates,
                  [user |-> u, status |-> status, pc |-> "update", part |-> 0, ok |-> FALSE,
                   rpcs |-> [p \in Users |-> 0], inserts |-> [p \in Users |-> 0],
                   refetched |-> FALSE])
  /\ UNCHANGED <<swapStatus, swaps, fetching, coins, rewards, dFailures>>
  /\ UNCHANGED notDashboard

\* incoming tab: s.provider_id === profile.id && s.status === 'pending'
D_Accept(u) == u = "provider" /\ swaps[u] = "pending" /\ Click(u, "accepted")

D_Decline(u) == u = "provider" /\ swaps[u] = "pending" /\ Click(u, "cancelled")

\* active tab, either participant
D_StartWorking(u) == swaps[u] = "accepted" /\ Click(u, "in_progress")

D_MarkComplete(u) == swaps[u] = "in_progress" /\ Click(u, "completed")

\* issue the award call for participant number k of invocation i
IssueRpc(ups, i, k) ==
  [ups EXCEPT ![i].pc = "rpc", ![i].part = k,
              ![i].rpcs[Participants[k]] = ups[i].rpcs[Participants[k]] + 1]

\* toast.success(...); fetchSwaps()
D_Finish(ups, i) ==
  /\ updates' = [ups EXCEPT ![i].pc = "done", ![i].refetched = TRUE]
  /\ fetching' = [fetching EXCEPT ![ups[i].user] = fetching[ups[i].user] + 1]

\* the update returns: .update({ status, ... }).eq('id', swapId)
D_UpdateReturn(i) ==
  /\ updates[i].pc = "update"
  /\ \E resp \in WriteResponses :
       /\ MayFail(resp)
       /\ dFailures' = Failed(resp)
       /\ IF resp = "error"
          THEN /\ updates' = [updates EXCEPT ![i].pc = "done"]
               /\ UNCHANGED <<swapStatus, fetching>>
          ELSE /\ swapStatus' = updates[i].status
               /\ LET ups == [updates EXCEPT ![i].ok = TRUE]
                  IN IF AwardsDue(updates[i].status)
                     THEN updates' = IssueRpc(ups, i, 1) /\ UNCHANGED fetching
                     ELSE D_Finish(ups, i)
  /\ UNCHANGED <<swaps, coins, rewards>>
  /\ UNCHANGED notDashboard

\* the award call returns (its result is not looked at); the insert is issued
D_RpcReturn(i) ==
  /\ updates[i].pc = "rpc"
  /\ LET p == Participants[updates[i].part]
     IN /\ \E resp \in WriteResponses :
             /\ MayFail(resp)
             /\ dFailures' = Failed(resp)
             /\ coins' = IF resp = "ok" THEN [coins EXCEPT ![p] = coins[p] + RewardAmount] ELSE coins
        /\ updates' = [updates EXCEPT ![i].pc = "insert",
                                      ![i].inserts[p] = updates[i].inserts[p] + 1]
  /\ UNCHANGED <<swapStatus, swaps, fetching, rewards>>
  /\ UNCHANGED notDashboard

\* the rewards insert returns (its result is not looked at)
D_InsertReturn(i) ==
  /\ updates[i].pc = "insert"
  /\ LET p == Participants[updates[i].part]
     IN \E resp \in WriteResponses :
          /\ MayFail(resp)
          /\ dFailures' = Failed(resp)
          /\ rewards' = IF resp = "ok" THEN [rewards EXCEPT ![p] = rewards[p] + RewardAmount] ELSE rewards
  /\ IF updates[i].part < Len(Participants)
     THEN updates' = IssueRpc(updates, i, updates[i].part + 1) /\ UNCHANGED fetching
     ELSE D_Finish(updates, i)
  /\ UNCHANGED <<swapStatus, swaps, coins>>
  /\ UNCHANGED notDashboard

\* both Dashboards mounted (useEffect -> fetchSwaps); the swap not yet completed
InitDashboard ==
  /\ swapStatus \in {"pending", "accepted", "in_progress"}
  /\ swaps = [u \in Users |-> "none"]
  /\ fetching = [u \in Users |-> 1]
  /\ updates = <<>>
  /\ coins = [u \in Users |-> 0]
  /\ rewards = [u \in Users |-> 0]
  /\ dFailures = 0
  /\ user_skills = <<>>
  /\ BroadIdle
  /\ StrictIdle
  /\ OverlapIdle
  /\ ProfileIdle
  /\ RoutingIdle
  /\ ChatIdle
  /\ AudioIdle

NextDashboard ==
  \/ \E u \in Users : D_FetchReturn(u)
  \/ \E u \in Users : D_Accept(u)
  \/ \E u \in Users : D_Decline(u)
  \/ \E u \in Users : D_StartWorking(u)
  \/ \E u \in Users : D_MarkComplete(u)
  \/ \E i \in DOMAIN updates : D_UpdateReturn(i)
  \/ \E i \in DOMAIN updates : D_RpcReturn(i)
  \/ \E i \in DOMAIN updates : D_InsertReturn(i)

SpecDashboard == InitDashboard /\ [][NextDashboard]_vars

\* ------------------------- SkillMatcher: the profile changes during a run
\* useEffect(..., [profile]) calls findAdvancedMatches again whenever the
\* profile changes; the earlier invocation keeps running with the profile it
\* closed over, and both end in setMatches / setLoading of the one component.
MaxProfileChanges == 1   \* changes of the profile in one behaviour
Profiles == {0, 1}       \* ids the profile can take

NewRun(p) == [profile |-> p, pc |-> "awaitOwn", idx |-> 0, myOffered |-> <<>>,
              myNeeded |-> <<>>, pm |-> <<>>, result |-> <<>>]

\* setMatches(uniqueMatches); finally setLoading(false)
P_Finish(r, pm) ==
  /\ runs' = [runs EXCEPT ![r].pc = "done", ![r].pm = pm, ![r].result = uniqueMatches(pm)]
  /\ shown' = uniqueMatches(pm)
  /\ shownLoading' = FALSE

\* the effect runs again with the new profile
P_ProfileChange ==
  /\ Len(runs) <= MaxProfileChanges
  /\ \E p \in Profiles \ {profile} :
       /\ profile' = p
       /\ runs' = Append(runs, NewRun(p))
  /\ UNCHANGED <<shown, shownLoading>>
  /\ UNCHANGED notProfile

P_OwnSkillsReturn(r) ==
  /\ runs[r].pc = "awaitOwn"
  /\ LET userSkills == OwnSkills(runs[r].profile)
         off == myOfferedB(userSkills)
         need == myNeededB(userSkills)
     IN IF Len(off) = 0 /\ Len(need) = 0
        THEN /\ runs' = [runs EXCEPT ![r].pc = "done"]
             /\ shownLoading' = FALSE
             /\ UNCHANGED shown
        ELSE /\ runs' = [runs EXCEPT ![r].myOffered = off, ![r].myNeeded = need, ![r].idx = 1,
                                     ![r].pc = IF Len(off) > 0 THEN "awaitNeeders"
                                               ELSE "awaitProviders"]
             /\ UNCHANGED <<shown, shownLoading>>
  /\ UNCHANGED profile
  /\ UNCHANGED notProfile

P_NeedersReturn(r) ==
  /\ runs[r].pc = "awaitNeeders"
  /\ LET run == runs[r]
         offeredSkill == run.myOffered[run.idx]
         pm == pushNeeders(run.pm, offeredSkill, NeedersOf(offeredSkill.skill_id, run.profile))
     IN IF run.idx < Len(run.myOffered)
        THEN /\ runs' = [runs EXCEPT ![r].pm = pm, ![r].idx = run.idx + 1]
             /\ UNCHANGED <<shown, shownLoading>>
        ELSE IF Len(run.myNeeded) > 0
        THEN /\ runs' = [runs EXCEPT ![r].pm = pm, ![r].idx = 1, ![r].pc = "awaitProviders"]
             /\ UNCHANGED <<shown, shownLoading>>
        ELSE P_Finish(r, pm)
  /\ UNCHANGED profile
  /\ UNCHANGED notProfile

P_ProvidersReturn(r) ==
  /\ runs[r].pc = "awaitProviders"
  /\ LET run == runs[r]
         neededSkill == run.myNeeded[run.idx]
         pm == pushProviders(run.pm, neededSkill,
                             ProvidersOf(neededSkill.skill_id, run.profile), 1)
     IN IF run.idx < Len(run.myNeeded)
        THEN /\ runs' = [runs EXCEPT ![r].pm = pm, ![r].idx = run.idx + 1]
             /\ UNCHANGED <<shown, shownLoading>>
        ELSE P_Finish(r, pm)
  /\ UNCHANGED profile
  /\ UNCHANGED notProfile

\* mounted with profile 0, whose first computation is in flight
InitProfile ==
  /\ \E cs \in SUBSET SlotsB, os \in SUBSET SlotsB :
       /\ Cardinality(cs) <= MaxCallerRows
       /\ Cardinality(os) <= MaxOtherRows
       /\ user_skills = TableOf({ Row(0, s[1], s[2], "beginner") : s \in cs }
                                \cup { Row(1, s[1], s[2], "beginner") : s \in os })
  /\ profile = 0
  /\ runs = <<NewRun(0)>>
  /\ shown = <<>>
  /\ shownLoading = TRUE
  /\ BroadIdle
  /\ StrictIdle
  /\ OverlapIdle
  /\ DashboardIdle
  /\ RoutingIdle
  /\ ChatIdle
  /\ AudioIdle

NextProfile ==
  \/ P_ProfileChange
  \/ \E r \in DOMAIN runs : P_OwnSkillsReturn(r)
  \/ \E r \in DOMAIN runs : P_NeedersReturn(r)
  \/ \E r \in DOMAIN runs : P_ProvidersReturn(r)

SpecProfile == InitProfile /\ [][NextProfile]_vars

\* ------------------------------------------------ AppContent: the routes
MaxHistory == 2   \* history entries kept
Paths == {"/", "/auth", "/profile", "/match", "/dashboard", "/rewards", "/other"}

\* mutant: the /rewards route renders its page without looking at user
Element_rewardsUnguarded(path, user) ==
  CASE path = "/" -> IF user THEN "Navigate" ELSE "Home"
    [] path = "/auth" -> IF user THEN "Navigate" ELSE "AuthForm"
    [] path = "/profile" -> IF user THEN "Profile" ELSE "Navigate"
    [] path = "/match" -> IF user THEN "Match" ELSE "Navigate"
    [] path = "/dashboard" -> IF user THEN "Dashboard" ELSE "Navigate"
    [] path = "/rewards" -> "Rewards"
    [] OTHER -> "Navigate"

\* the element of the <Route> that matches path
Element(path, user) ==
  CASE path = "/" -> IF user THEN "Navigate" ELSE "Home"
    [] path = "/auth" -> IF user THEN "Navigate" ELSE "AuthForm"
    [] path = "/profile" -> IF user THEN "Profile" ELSE "Navigate"
    [] path = "/match" -> IF user THEN "Match" ELSE "Navigate"
    [] path = "/dashboard" -> IF user THEN "Dashboard" ELSE "Navigate"
    [] path = "/rewards" -> IF user THEN "Rewards" ELSE "Navigate"
    [] OTHER -> "Navigate"

\* the to= of the <Navigate> in the matching route
NavigateTo(path, user) ==
  CASE path \in {"/", "/auth"} -> "/dashboard"
    [] path \in {"/profile", "/match", "/dashboard", "/rewards"} -> "/auth"
    [] OTHER -> "/"

Location(h) == h[Len(h)]

\* AppContent renders with the current location and auth state
Render(h, user, isLoading) ==
  /\ page' = IF isLoading THEN "Loading" ELSE Element(Location(h), user)
  /\ redirect' = IF ~isLoading /\ Element(Location(h), user) = "Navigate"
                 THEN NavigateTo(Location(h), user) ELSE "none"

\* getSession returns (a throw is caught and ends in finally like no session)
A_GetSessionReturn ==
  /\ authPc = "getSession"
  /\ \E signedIn \in BOOLEAN :
       /\ authUser' = signedIn
       /\ authPc' = IF signedIn THEN "fetchProfile" ELSE "ready"
       /\ authLoading' = IF signedIn THEN authLoading ELSE FALSE
  /\ Render(history, authUser', authLoading')
  /\ UNCHANGED <<history, authSettling>>
  /\ UNCHANGED notRouting

\* fetchProfile of initializeAuth returns; both finally blocks setLoading(false)
A_FetchProfileReturn ==
  /\ authPc = "fetchProfile"
  /\ authPc' = "ready"
  /\ authLoading' = FALSE
  /\ Render(history, authUser, FALSE)
  /\ UNCHANGED <<history, authUser, authSettling>>
  /\ UNCHANGED notRouting

\* onAuthStateChange callback: setUser, then fetchProfile or setLoading(false)
A_AuthStateChange ==
  /\ \E signedIn \in BOOLEAN :
       /\ authUser' = signedIn
       /\ authSettling' = signedIn
       /\ authLoading' = IF signedIn THEN authLoading ELSE FALSE
  /\ Render(history, authUser', authLoading')
  /\ UNCHANGED <<history, authPc>>
  /\ UNCHANGED notRouting

\* the callback's fetchProfile returns; setLoading(false)
A_AuthSettled ==
  /\ authSettling
  /\ authSettling' = FALSE
  /\ authLoading' = FALSE
  /\ Render(history, authUser, FALSE)
  /\ UNCHANGED <<history, authUser, authPc>>
  /\ UNCHANGED notRouting

\* a link or an entered URL pushes a location
R_Visit ==
  /\ Len(history) < MaxHistory
  /\ \E path \in Paths : history' = Append(history, path)
  /\ Render(history', authUser, authLoading)
  /\ UNCHANGED <<authUser, authLoading, authPc, authSettling>>
  /\ UNCHANGED notRouting

R_Back ==
  /\ Len(history) > 1
  /\ history' = SubSeq(history, 1, Len(history) - 1)
  /\ Render(history', authUser, authLoading)
  /\ UNCHANGED <<authUser, authLoading, authPc, authSettling>>
  /\ UNCHANGED notRouting

\* the rendered <Navigate to=... replace /> takes effect
R_Redirect ==
  /\ page = "Navigate"
  /\ history' = [history EXCEPT ![Len(history)] = redirect]
  /\ Render(history', authUser, authLoading)
  /\ UNCHANGED <<authUser, authLoading, authPc, authSettling>>
  /\ UNCHANGED notRouting

\* the app is opened at some URL; AuthProvider mounts and calls getSession
InitRouting ==
  /\ \E path \in Paths : history = <<path>>
  /\ authUser = FALSE
  /\ authLoading = TRUE
  /\ authPc = "getSession"
  /\ authSettling = FALSE
  /\ page = "Loading"
  /\ redirect = "none"
  /\ user_skills = <<>>
  /\ BroadIdle
  /\ StrictIdle
  /\ OverlapIdle
  /\ DashboardIdle
  /\ ProfileIdle
  /\ ChatIdle
  /\ AudioIdle

NextRouting ==
  \/ A_GetSessionReturn
  \/ A_FetchProfileReturn
  \/ A_AuthStateChange
  \/ A_AuthSettled
  \/ R_Visit
  \/ R_Back
  \/ R_Redirect

SpecRouting == InitRouting /\ [][NextRouting]_vars

\* ------------------------------------------- ChatInterface: initializeChat
\* initializeChat reads (or creates) the conversation, calls setConversation,
\* which makes the subscription effect subscribe, and then reads the message
\* history.  The service runs the select at some moment between request and
\* response; INSERT payloads reach the client once the channel has joined.
MaxMessages == 3   \* messages written to the conversation in one behaviour

Ids(n) == [k \in 1..n |-> k]

\* setConversation(existingConversation): the effect subscribes; the history read is issued
C_Subscribe ==
  /\ subscription' = "joining"
  /\ chatPc' = "awaitMessages"
  /\ snapshot' = [read |-> FALSE, rows |-> <<>>]

\* .from('conversations').select('*').eq('swap_id', swapId).single() returns
C_ConversationReturn ==
  /\ chatPc = "awaitConversation"
  /\ IF conversationStored
     THEN C_Subscribe
     ELSE chatPc' = "awaitCreate" /\ UNCHANGED <<subscription, snapshot>>
  /\ UNCHANGED <<conversationStored, stored, notifications, messages>>
  /\ UNCHANGED notChat

\* the conversations insert returns the new row
C_CreateReturn ==
  /\ chatPc = "awaitCreate"
  /\ conversationStored' = TRUE
  /\ C_Subscribe
  /\ UNCHANGED <<stored, notifications, messages>>
  /\ UNCHANGED notChat

\* the channel has joined: later INSERTs are sent to this client
C_Joined ==
  /\ subscription = "joining"
  /\ subscription' = "joined"
  /\ UNCHANGED <<conversationStored, stored, chatPc, snapshot, notifications, messages>>
  /\ UNCHANGED notChat

\* either participant's sendMessage insert is executed by the service
C_Insert ==
  /\ conversationStored
  /\ stored < MaxMessages
  /\ stored' = stored + 1
  /\ notifications' = IF subscription = "joined"
                      THEN Append(notifications, stored + 1) ELSE notifications
  /\ UNCHANGED <<conversationStored, chatPc, subscription, snapshot, messages>>
  /\ UNCHANGED notChat

\* the service runs the messages select (.order('created_at'))
C_MessagesRead ==
  /\ chatPc = "awaitMessages"
  /\ ~snapshot.read
  /\ snapshot' = [read |-> TRUE, rows |-> Ids(stored)]
  /\ UNCHANGED <<conversationStored, stored, chatPc, subscription, notifications, messages>>
  /\ UNCHANGED notChat

\* the select returns: setMessages(messagesData || []); finally setLoading(false)
C_MessagesReturn ==
  /\ chatPc = "awaitMessages"
  /\ snapshot.read
  /\ messages' = snapshot.rows
  /\ chatPc' = "settled"
  /\ UNCHANGED <<conversationStored, stored, subscription, snapshot, notifications>>
  /\ UNCHANGED notChat

\* the INSERT callback: setMessages((prev) => [...prev, newMessage])
C_Notify ==
  /\ notifications # <<>>
  /\ messages' = Append(messages, Head(notifications))
  /\ notifications' = Tail(notifications)
  /\ UNCHANGED <<conversationStored, stored, chatPc, subscription, snapshot>>
  /\ UNCHANGED notChat

\* the chat is opened; the conversation may exist already, with earlier messages
InitChat ==
  /\ conversationStored \in BOOLEAN
  /\ stored \in 0..(IF conversationStored THEN 1 ELSE 0)
  /\ chatPc = "awaitConversation"
  /\ subscription = "none"
  /\ snapshot = [read |-> FALSE, rows |-> <<>>]
  /\ notifications = <<>>
  /\ messages = <<>>
  /\ user_skills = <<>>
  /\ BroadIdle
  /\ StrictIdle
  /\ OverlapIdle
  /\ DashboardIdle
  /\ ProfileIdle
  /\ RoutingIdle
  /\ AudioIdle

NextChat ==
  \/ C_ConversationReturn
  \/ C_CreateReturn
  \/ C_Joined
  \/ C_Insert
  \/ C_MessagesRead
  \/ C_MessagesReturn
  \/ C_Notify

SpecChat == InitChat /\ [][NextChat]_vars

\* ------------------------------------------------- AudioCallInterface
MaxCallTimers == 3   \* startCallTimer calls in one behaviour
MaxDuration == 2     \* seconds counted

\* the effect of [isConnected, isAudioOn] runs (again): the cleanup of the
\* previous run clears its timeout and its interval, the body sets new ones
A_Effect ==
  /\ connectTimer' = TRUE
  /\ audioLevelTimer' = TRUE

\* startCallTimer: setInterval(...); the clearing function it returns is dropped
startCallTimer == callTimers' = callTimers + 1

\* the 2000 ms timeout fires: setIsConnected(true); startCallTimer()
AU_ConnectTimeout ==
  /\ connectTimer
  /\ callTimers < MaxCallTimers
  /\ isConnected' = TRUE
  /\ startCallTimer
  /\ IF isConnected
     THEN connectTimer' = FALSE /\ UNCHANGED audioLevelTimer
     ELSE A_Effect
  /\ UNCHANGED <<mounted, isAudioOn, isSpeakerOn, audioLevel, callDuration>>
  /\ UNCHANGED notAudio

\* the 200 ms interval fires
AU_AudioLevel ==
  /\ audioLevelTimer
  /\ audioLevel' = IF isConnected /\ isAudioOn THEN 1 ELSE 0
  /\ UNCHANGED <<mounted, isConnected, isAudioOn, isSpeakerOn, connectTimer,
                 audioLevelTimer, callTimers, callDuration>>
  /\ UNCHANGED notAudio

\* a call-duration interval fires: setCallDuration(prev => prev + 1), which
\* does nothing once the component is unmounted
AU_Second ==
  /\ callTimers > 0
  /\ mounted
  /\ callDuration < MaxDuration
  /\ callDuration' = callDuration + 1
  /\ UNCHANGED <<mounted, isConnected, isAudioOn, isSpeakerOn, connectTimer,
                 audioLevelTimer, audioLevel, callTimers>>
  /\ UNCHANGED notAudio

toggleAudio ==
  /\ mounted
  /\ isAudioOn' = ~isAudioOn
  /\ A_Effect
  /\ UNCHANGED <<mounted, isConnected, isSpeakerOn, audioLevel, callTimers, callDuration>>
  /\ UNCHANGED notAudio

toggleSpeaker ==
  /\ mounted
  /\ isSpeakerOn' = ~isSpeakerOn
  /\ UNCHANGED <<mounted, isConnected, isAudioOn, connectTimer, audioLevelTimer,
                 audioLevel, callTimers, callDuration>>
  /\ UNCHANGED notAudio

\* endCall -> onClose: the parent unmounts the component, the effect's cleanup runs
AU_Unmount ==
  /\ mounted
  /\ mounted' = FALSE
  /\ connectTimer' = FALSE
  /\ audioLevelTimer' = FALSE
  /\ UNCHANGED <<isConnected, isAudioOn, isSpeakerOn, audioLevel, callTimers, callDuration>>
  /\ UNCHANGED notAudio

\* mounted: the effect has run once
InitAudio ==
  /\ mounted = TRUE
  /\ isConnected = FALSE /\ isAudioOn = TRUE /\ isSpeakerOn = TRUE
  /\ connectTimer = TRUE /\ audioLevelTimer = TRUE
  /\ audioLevel = 0 /\ callTimers = 0 /\ callDuration = 0
  /\ user_skills = <<>>
  /\ BroadIdle
  /\ StrictIdle
  /\ OverlapIdle
  /\ DashboardIdle
  /\ ProfileIdle
  /\ RoutingIdle
  /\ ChatIdle

NextAudio ==
  \/ AU_ConnectTimeout
  \/ AU_AudioLevel
  \/ AU_Second
  \/ toggleAudio
  \/ toggleSpeaker
  \/ AU_Unmount

SpecAudio == InitAudio /\ [][NextAudio]_vars

\* ================================================================ claims
Rows == { user_skills[k] : k \in DOMAIN user_skills }
RowsOfType(u, t) == { r \in Rows : r.user_id = u /\ r.type = t }
Others == { r.user_id : r \in Rows } \ {Caller}
Max(S) == CHOOSE x \in S : \A y \in S : y <= x

Ordinal(l) == CASE l = "beginner" -> 1 [] l = "intermediate" -> 2 [] l = "advanced" -> 3

\* C1: every calculateCompatibility call over the three levels returns 100 when
\* the teacher's ordinal exceeds the learner's by 1 or 2, 80 when the ordinals
\* are equal and 40 when the teacher's is lower.
C1_ScoreTable ==
  \A c \in calls :
    LET d == Ordinal(c.teacher) - Ordinal(c.learner)
    IN c.score = IF d \in {1, 2} THEN 100 ELSE IF d = 0 THEN 80 ELSE 40

C1_Witness ==
  /\ { c.score : c \in calls } = {40, 80, 100}
  /\ \E c \in calls : c.teacher = "advanced" /\ c.learner = "beginner" /\ c.score = 100
  /\ \E c \in calls : c.teacher = "beginner" /\ c.learner = "advanced" /\ c.score = 40

\* the scores of all the skill pairings through which counterparty u qualifies
PairingScores(u) ==
  { calculateCompatibility(o.proficiency_level, r.proficiency_level) :
      <<o, r>> \in { p \in RowsOfType(Caller, "offered") \X RowsOfType(u, "needed") :
                       p[1].skill_id = p[2].skill_id } }
  \cup
  { calculateCompatibility(r.proficiency_level, n.proficiency_level) :
      <<n, r>> \in { p \in RowsOfType(Caller, "needed") \X RowsOfType(u, "offered") :
                       p[1].skill_id = p[2].skill_id } }

\* C2: when all reads succeed, the entry retained for a counterparty that
\* qualifies through pairings with different scores carries the highest of them.
C2_HighestRetained ==
  (bpc = "done" /\ failures = 0) =>
    \A k \in 1..Len(matches) :
      Cardinality(PairingScores(matches[k].user)) >= 2 =>
        matches[k].compatibility = Max(PairingScores(matches[k].user))

\* C3: no counterparty user id appears twice in the broad matcher's result list.
C3_NoDuplicateUser ==
  \A i, j \in 1..Len(matches) : i # j => matches[i].user # matches[j].user

C3_Witness ==
  /\ bpc = "done"
  /\ Len(matches) >= 2
  /\ \E i, j \in 1..Len(potentialMatches) :
       i # j /\ potentialMatches[i].user = potentialMatches[j].user

\* C4: the broad matcher's result list is ordered by non-increasing
\* compatibility and has at most 12 entries.
C4_SortedAndCapped ==
  /\ \A i, j \in 1..Len(matches) : i < j => matches[i].compatibility >= matches[j].compatibility
  /\ Len(matches) <= 12

C4_Witness ==
  /\ bpc = "done"
  /\ Len(matches) = 12
  /\ Cardinality({ potentialMatches[k].user : k \in 1..Len(potentialMatches) }) > 12
  /\ \E i, j \in 1..Len(potentialMatches) :
       i < j /\ potentialMatches[i].compatibility < potentialMatches[j].compatibility
  /\ matches[1].compatibility > matches[12].compatibility

C6_FailureEmptyAndLogged ==
  (bpc = "done" /\ failures > 0) => (matches = <<>> /\ logged = 1)

\* the users other than the caller who need a skill the caller offers and
\* offer a skill the caller needs
MutualUsers ==
  { u \in Others :
      /\ \E r \in RowsOfType(u, "needed") : \E o \in RowsOfType(Caller, "offered") :
           r.skill_id = o.skill_id
      /\ \E r \in RowsOfType(u, "offered") : \E n \in RowsOfType(Caller, "needed") :
           r.skill_id = n.skill_id }

\* C7: when all reads succeed, the user ids in findMatches' list are exactly the
\* users other than the caller who need a skill the caller offers and offer a
\* skill the caller needs.
C7_StrictExactSet ==
  (spc = "resolved" /\ sFailures = 0) =>
    { sResult[k].userId : k \in 1..Len(sResult) } = MutualUsers

C7_Witness ==
  /\ spc = "resolved" /\ sFailures = 0
  /\ Len(sResult) > 0
  /\ \E u \in Others \ MutualUsers :
       \E r \in RowsOfType(u, "needed") : \E o \in RowsOfType(Caller, "offered") :
         r.skill_id = o.skill_id

\* C8: no counterparty user id appears twice in the list findMatches returns.
C8_StrictNoDuplicateUser ==
  \A i, j \in 1..Len(sResult) : i # j => sResult[i].userId # sResult[j].userId

\* C9: a caller with zero offered skills or zero needed skills makes findMatches
\* return an empty list, and no needer or provider lookup is issued.
C9_StrictNoSkillsNoLookup ==
  (RowsOfType(Caller, "offered") = {} \/ RowsOfType(Caller, "needed") = {}) =>
    /\ sLookups = 0
    /\ spc \in {"awaitOwn", "resolved", "rejected"}
    /\ spc = "resolved" => sResult = <<>>
    /\ (spc # "awaitOwn" /\ sFailures = 0) => spc = "resolved"

C9_Witness ==
  /\ spc = "resolved" /\ sFailures = 0
  /\ RowsOfType(Caller, "needed") = {}
  /\ \E o \in RowsOfType(Caller, "offered") : \E r \in Rows :
       r.user_id # Caller /\ r.type = "needed" /\ r.skill_id = o.skill_id
  /\ sLookups = 0 /\ sResult = <<>>

\* C10: a remote-read failure at any stage makes findMatches resolve with an
\* empty list; it never rejects.
C10_StrictFailureEmpty ==
  (sFailures > 0 /\ spc \in {"resolved", "rejected"}) =>
    (spc = "resolved" /\ sResult = <<>>)

\* the users other than the caller who need a skill the caller offers or
\* offer a skill the caller needs
QualifyingUsers ==
  { u \in Others :
      \/ \E r \in RowsOfType(u, "needed") : \E o \in RowsOfType(Caller, "offered") :
           r.skill_id = o.skill_id
      \/ \E r \in RowsOfType(u, "offered") : \E n \in RowsOfType(Caller, "needed") :
           r.skill_id = n.skill_id }

MatchedUsers == { matches[k].user : k \in 1..Len(matches) }

\* C11: when all reads succeed, the caller has an offered and a needed skill
\* and at most 12 counterparties qualify, the users in the broad matcher's
\* result are exactly the users other than the caller who need a skill the
\* caller offers or offer a skill the caller needs; the caller is never in it.
C11_BroadExactSet ==
  /\ Caller \notin MatchedUsers
  /\ (/\ bpc = "done" /\ failures = 0
      /\ RowsOfType(Caller, "offered") # {} /\ RowsOfType(Caller, "needed") # {}
      /\ Cardinality(QualifyingUsers) <= 12)
     => MatchedUsers = QualifyingUsers

C11_Witness ==
  /\ bpc = "done" /\ failures = 0
  /\ RowsOfType(Caller, "offered") # {} /\ RowsOfType(Caller, "needed") # {}
  /\ \E o \in RowsOfType(Caller, "offered") : \E n \in RowsOfType(Caller, "needed") :
       o.skill_id = n.skill_id
  /\ MatchedUsers # {}
  /\ MatchedUsers = QualifyingUsers
  /\ Others \ QualifyingUsers # {}

\* C12: the state a failed match computation leaves (matches, loading) is the
\* state a successful computation with no matches leaves: an empty list and
\* loading = false.
C12_FailureLooksEmpty ==
  (bpc = "done" /\ failures > 0) => (matches = <<>> /\ loading = FALSE)

\* C13: over the three levels calculateCompatibility never returns 60 (the
\* level difference never equals 3); every result is 40, 80 or 100.
C13_Never60 ==
  \A c \in calls :
    /\ c.score # 60
    /\ c.score \in {40, 80, 100}
    /\ Ordinal(c.teacher) - Ordinal(c.learner) # 3

C13_Witness ==
  /\ bpc = "done"
  /\ \E c \in calls : Ordinal(c.teacher) - Ordinal(c.learner) = 2 /\ c.score = 100
  /\ \E c \in calls : Ordinal(c.teacher) - Ordinal(c.learner) = -2 /\ c.score = 40

\* C14: within one invocation of either match finder at most one remote
\* request is outstanding at any time.
C14_OneOutstanding ==
  /\ Cardinality(bInflight) <= 1
  /\ Cardinality(sInflight) <= 1

C14_Witness ==
  /\ lookups >= 2 /\ Cardinality(bInflight) = 1
  /\ sLookups >= 2 /\ Cardinality(sInflight) = 1

CallerPairs == RowsOfType(Caller, "offered") \X RowsOfType(Caller, "needed")

\* one per (offered skill, needed skill) pair and needer row of the offered skill
NeederRowsOfPairs ==
  { t \in CallerPairs \X Rows :
      t[2].type = "needed" /\ t[2].skill_id = t[1][1].skill_id /\ t[2].user_id # Caller }

\* C15: in findMatches no candidate lookup is issued before the own-skills
\* fetch has returned; with all reads successful one needer lookup is issued
\* per (offered, needed) pair of the caller and one provider lookup per needer
\* row returned, each provider lookup after its needer lookup has returned.
C15_LookupOrder ==
  /\ <<"own", 0, 0, 0>> \in sInflight => sLookups = 0
  /\ \A req \in sInflight :
       req[1] = "providers" =>
         /\ <<"needers", req[2], req[3], 0>> \notin sInflight
         /\ req[4] \in 1..Len(needers)
         /\ needers = NeedersOfS(sOffered[req[2]].skill_id, Caller)
  /\ (spc = "resolved" /\ sFailures = 0) =>
       /\ sNeederLookups = Cardinality(CallerPairs)
       /\ sLookups - sNeederLookups = Cardinality(NeederRowsOfPairs)

C15_Witness ==
  /\ spc = "resolved" /\ sFailures = 0
  /\ sNeederLookups >= 2
  /\ sLookups - sNeederLookups >= 2
  /\ \E o \in RowsOfType(Caller, "offered") : \E n \in RowsOfType(Caller, "needed") :
       o.skill_id = n.skill_id

BroadCompleted == bpc = "done" /\ loading = FALSE
StrictCompleted == spc \in {"resolved", "rejected"}

\* C16: an invocation of either match finder completes if and only if every
\* remote call it issues returns: when the calls return it terminates
\* (SkillMatcher sets loading to false, findMatches settles), and it is never
\* complete while a call is outstanding, a return being the only step that
\* completes it.
C16_CompletesIffReturns ==
  /\ <>BroadCompleted
  /\ <>StrictCompleted
  /\ [](bInflight # {} => loading = TRUE)
  /\ [](sInflight # {} => ~StrictCompleted)
  /\ [][(~BroadCompleted /\ BroadCompleted') => (bInflight # {} /\ bInflight' = {})]_vars
  /\ [][(~StrictCompleted /\ StrictCompleted') => (sInflight # {} /\ sInflight' = {})]_vars

C16_Witness ==
  /\ BroadCompleted /\ lookups >= 2 /\ bInflight = {}
  /\ spc = "resolved" /\ sLookups >= 2 /\ sInflight = {}

\* the matches of one (offered skill, needed skill) pair, in needer order
PairMatches(o, n) ==
  LET hit == SelectSeq(NeedersOfS(o.skill_id, Caller),
                       LAMBDA r : Len(ProvidersOfS(r.user_id, n.skill_id)) > 0)
  IN [k \in 1..Len(hit) |-> MatchResult(hit[k], o)]

RECURSIVE AloneFrom(_, _, _, _)
AloneFrom(off, need, o, n) ==
  IF o > Len(off) THEN <<>>
  ELSE IF n > Len(need) THEN AloneFrom(off, need, o + 1, 1)
  ELSE PairMatches(off[o], need[n]) \o AloneFrom(off, need, o, n + 1)

\* the list a findMatches call returns when nothing else runs and all reads succeed
AloneResult ==
  LET off == myOfferedS(OwnSkillsS(Caller))
      need == myNeededS(OwnSkillsS(Caller))
  IN IF Len(off) = 0 \/ Len(need) = 0 THEN <<>> ELSE AloneFrom(off, need, 1, 1)

\* the single invocation of SpecStrict returns AloneResult
AloneResultIsStrictResult == (spc = "resolved" /\ sFailures = 0) => sResult = AloneResult

\* C17: two overlapping findMatches invocations against an unchanging backend
\* each return the list they would return if run alone, whatever the
\* interleaving of their remote calls.
C17_OverlapIndependent ==
  \A i \in DOMAIN inv : inv[i].pc = "resolved" => inv[i].result = AloneResult

C17_Witness ==
  /\ DOMAIN inv = Invocations
  /\ inv[1].pc = "resolved" /\ Len(inv[1].result) >= 1
  /\ inv[2].pc = "awaitProviders" /\ Len(accs[2]) >= 1

\* position of a status in pending -> accepted -> in_progress -> completed
Rank(st) ==
  CASE st = "pending" -> 0 [] st = "accepted" -> 1 [] st = "in_progress" -> 2
    [] st = "completed" -> 3 [] st = "cancelled" -> 4

Forward(a, b) ==
  \/ a = b
  \/ a \notin {"completed", "cancelled"} /\ (b = "cancelled" \/ Rank(b) > Rank(a))

C19_RewardAtMostOnce ==
  \A p \in DOMAIN coins : coins[p] <= RewardAmount /\ rewards[p] <= RewardAmount

C21_LatestProfileShown ==
  (/\ Len(runs) >= 2
   /\ \A r \in DOMAIN runs : runs[r].pc = "done"
   /\ Len(OwnSkills(profile)) > 0)
  => shown = runs[Len(runs)].result

ProtectedPaths == {"/profile", "/match", "/dashboard", "/rewards"}
ProtectedPages == {"Profile", "Match", "Dashboard", "Rewards"}

\* C22: a protected page is rendered only when auth loading is false and a
\* user is signed in; with no user the protected paths redirect to /auth, with
\* a user / and /auth redirect to /dashboard, and while loading no page is
\* rendered.
C22_RouteGuards ==
  history # <<>> =>
    /\ page \in ProtectedPages => (~authLoading /\ authUser)
    /\ authLoading => (page = "Loading" /\ redirect = "none")
    /\ (~authLoading /\ ~authUser /\ Location(history) \in ProtectedPaths)
         => (page = "Navigate" /\ redirect = "/auth")
    /\ (~authLoading /\ authUser /\ Location(history) \in {"/", "/auth"})
         => (page = "Navigate" /\ redirect = "/dashboard")

C22_Witness ==
  /\ history # <<>>
  /\ ~authLoading /\ ~authUser
  /\ Location(history) = "/rewards" /\ page = "Navigate" /\ redirect = "/auth"
  /\ Len(history) = 2 /\ history[1] = "/dashboard"

\* initialisation is over and nothing is on its way to the client
ChatSettled == chatPc = "settled" /\ subscription = "joined" /\ notifications = <<>>

Occurrences(s, x) == Cardinality({k \in 1..Len(s) : s[k] = x})

\* C23: once initialisation has settled, the message list holds each message
\* of the conversation exactly once, whatever the interleaving of the history
\* read with the INSERT notifications.
C23_EachMessageOnce ==
  ChatSettled => \A m \in 1..stored : Occurrences(messages, m) = 1

\* C23, the two halves apart: none duplicated / none dropped
C23_NoneDuplicated == ChatSettled => \A m \in 1..stored : Occurrences(messages, m) <= 1

C23_NoneDropped == ChatSettled => \A m \in 1..stored : Occurrences(messages, m) >= 1

\* C24: at most one call-duration interval is active while the component is
\* mounted, whatever the connect timeouts, mute toggles and effect re-runs,
\* and none is active after it unmounts.
C24_OneCallTimer ==
  /\ mounted => callTimers <= 1
  /\ ~mounted => callTimers = 0

\* C24, the unmounted half alone
C24_NoneAfterUnmount == ~mounted => callTimers = 0

====
